---- MODULE Spec2Model ----
\* Verification model of twitcharchiver/downloaders/stream.py:
\* StreamSegmentList / StreamSegment (segment registry), Stream (capture loop,
\* segment fetcher).  Timestamps are whole seconds, durations are tenths of a
\* second (2.0 s = 20), so that the float arithmetic of the source is exact.
EXTENDS Integers, Sequences, FiniteSets, TLC

VARIABLES
    segments,            \* StreamSegmentList.segments : id -> StreamSegment
    current_id,          \* StreamSegmentList.current_id
    align_segments,      \* StreamSegmentList._align_segments / Stream._align_segments
    stream_created_at,   \* StreamSegmentList.stream_created_at
    lastOp,              \* history: the last registry operation and its argument
    fed,                 \* history: the parts passed to add_part, in order
    assigned,            \* history: the segment id each fed part ended up in
    processed_parts,         \* Stream._processed_parts (a set keyed by Part.__eq__/__hash__)
    incoming_part_buffer,    \* Stream._incoming_part_buffer
    last_part_announce_age,  \* seconds since Stream._last_part_announce, saturating
    start_timestamp_age,     \* seconds since start()'s _start_timestamp, saturating
    pc,                      \* position of the session's single thread of control
    err,                     \* the exception that escaped to the caller, if any
    output_dir,              \* files of Stream.output_dir : segment id -> content
    appended,                \* history: url -> times appended to _incoming_part_buffer
    session_log,             \* history: completed downloads, not-found seen, flushes since
    stream,                  \* Stream.stream : what get_stream_info answered (online, duration, v_id)
    output_path,             \* Stream.output_dir as a path: "None", "buffer" or "vod"
    dirs,                    \* the directories build_output_dir_name can name, with their files
    buffer_passes,           \* iterations left of the loop of _buffer_stream
    completed_segments,      \* Stream._completed_segments, as the set of their ids
    download_queue           \* Stream._download_queue : "None" until the registry is built

listVars == <<segments, current_id, align_segments, stream_created_at, lastOp, fed, assigned>>
setupVars == <<stream, output_path, dirs, buffer_passes, completed_segments, download_queue>>
streamVars == <<processed_parts, incoming_part_buffer, last_part_announce_age,
                start_timestamp_age, pc, err, output_dir, appended, session_log, setupVars>>
vars == <<listVars, streamVars>>

\* ---------------------------------------------------------------- bounds
MaxAdds == 7          \* add_part calls in the registry specification
MaxDelta == 16        \* largest timestamp offset in the registry specification
MaxSeqParts == 8      \* parts fed in the increasing-timestamp specification
MaxGap == 3           \* largest timestamp gap between two successive parts
MaxFirstDelta == 9    \* largest offset of the first part from stream_created_at
MaxUrl == 6           \* parts the broadcast advertises in the session specification
ManifestLen == 2      \* parts listed by one manifest
MaxTimeouts == 6      \* consecutive connection timeouts offered to one fetch
MaxCount == 2         \* cap of the flush counter of the session log
MaxBufferPasses == 2  \* most iterations of the loop of _buffer_stream
MaxExistingId == 1    \* largest id of a segment file left by an earlier session

\* ------------------------------------------------------- program constants
SegmentSize_Six == 5 + 1
SegmentSize == 5          \* parts per segment
PhaseOffset == 4          \* the 4 in floor((4 + dt) / 10)
SegmentWindow == 10       \* the 10 in floor((4 + dt) / 10)
NominalDuration == 20     \* 2.0 s

\* ------------------------------------------------------------ StreamSegment
Part(url, timestamp, duration, title) ==
    [url |-> url, timestamp |-> timestamp, duration |-> duration, title |-> title]

StreamSegment(segment_id) == [id |-> segment_id, parts |-> <<>>, duration |-> 0]

StreamSegment_add_part(seg, part) ==
    [seg EXCEPT !.parts = Append(@, part), !.duration = @ + part.duration]

is_full(seg) == Len(seg.parts) = SegmentSize

\* -------------------------------------------------------- StreamSegmentList
get_id_for_part_NoOffset(part, created) ==
    (part.timestamp - created) \div SegmentWindow

get_id_for_part(part, created) ==
    (PhaseOffset + (part.timestamp - created)) \div SegmentWindow

\* add_part on the registry <<segs, cur>>; returns the new registry and the id
\* the part was appended to.
StreamSegmentList_add_part(segs, cur, align, created, part) ==
    LET k0    == IF align THEN get_id_for_part(part, created) ELSE cur
        new   == k0 \notin DOMAIN segs
        cur1  == IF new THEN k0 ELSE cur
        segs1 == IF new THEN (k0 :> StreamSegment(k0)) @@ segs ELSE segs
        full  == Len(segs1[k0].parts) = SegmentSize
        k1    == IF full THEN k0 + 1 ELSE k0
        cur2  == IF full THEN k1 ELSE cur1
        segs2 == IF full THEN (k1 :> StreamSegment(k1)) @@ segs1 ELSE segs1
    IN  [segments   |-> [segs2 EXCEPT ![k1] = StreamSegment_add_part(@, part)],
         current_id |-> cur2,
         id         |-> k1]

is_segment_present(segs, segment_id) == segment_id \in DOMAIN segs

get_completed_segment_ids(segs) ==
    {k \in DOMAIN segs : Len(segs[k].parts) = SegmentSize}

pop_segment(segs, seg_id) == [k \in DOMAIN segs \ {seg_id} |-> segs[k]]

EmptySegments == [k \in {} |-> StreamSegment(k)]

NoFiles == [k \in {} |-> <<>>]

\* A directory that does not exist, and one that exists without files.
NoDir == [present |-> FALSE, files |-> NoFiles]

EmptyDir == [present |-> TRUE, files |-> NoFiles]

\* completed: segments handed over by _download_queued_segments;
\* notfound: a not-found manifest response has been handled, and whether a
\* completed segment had been downloaded before it; flushes: calls of
\* _download_segment since then (counted up to MaxCount).
NoSessionLog == [completed |-> 0, notfound |-> FALSE, after_completed |-> FALSE, flushes |-> 0]

\* The setup fields of a constructed Stream that found no file of an earlier
\* session: with an archive identity (alignment on) the broadcast was 120 s
\* old and the output directory is the one named after the identity; without
\* one the broadcast was 118 s old, so _buffer_stream slept 2 s without a
\* pass, and the buffer directory is the output directory.
Constructed ==
    /\ stream = IF align_segments THEN [online |-> TRUE, duration |-> 120, v_id |-> 1]
                                  ELSE [online |-> TRUE, duration |-> 118, v_id |-> 0]
    /\ output_path = IF align_segments THEN "vod" ELSE "buffer"
    /\ dirs = IF align_segments THEN [buffer |-> NoDir, vod |-> EmptyDir]
                                ELSE [buffer |-> EmptyDir, vod |-> NoDir]
    /\ buffer_passes = 0
    /\ completed_segments = {}
    /\ download_queue = "StreamSegmentList"

\* The Stream fields of a specification that drives the registry alone.
StreamIdle ==
    /\ Constructed
    /\ processed_parts = {}
    /\ incoming_part_buffer = <<>>
    /\ last_part_announce_age = 0
    /\ start_timestamp_age = 0
    /\ pc = "registry"
    /\ err = [type |-> "none"]
    /\ output_dir = NoFiles
    /\ appended = <<>>
    /\ session_log = NoSessionLog

\* ----------------------------------------------------- StreamSegment.Part
\* Part.__eq__ / __hash__ : two parts are the same part iff their urls agree.
PartEq_AllFields(a, b) == a = b

PartEq(a, b) == a.url = b.url

\* `part in parts` and `parts.add(part)` of a Python set of Parts.
PartIn(part, parts) == \E q \in parts : PartEq(part, q)

PartSetAdd(parts, part) == IF PartIn(part, parts) THEN parts ELSE parts \cup {part}

\* --------------------------------------------------------- Stream: fetch
FetchRange == 6           \* for _ in range(6)
FetchRetryGuard_Five == 4 + 1
FetchRetryGuard == 4      \* if _ > 4: raise StreamFetchError
AnnounceTimeout_Ten == 2 * 5
AnnounceTimeout == 20     \* time_since_date(_last_part_announce) > 20
LoopCadence == 4          \* sleep(4 - _loop_time)

Bump(f, u) == IF u \in DOMAIN f THEN [f EXCEPT ![u] = @ + 1] ELSE (u :> 1) @@ f

\* The loop over the parsed manifest: every part not yet in _processed_parts
\* is added to it and appended to _incoming_part_buffer.
RECURSIVE AdvertiseParts(_, _, _)
AdvertiseParts(manifest, i, st) ==
    IF i > Len(manifest) THEN st
    ELSE LET part == manifest[i]
         IN  IF ~PartIn(part, st.processed)
             THEN AdvertiseParts(manifest, i + 1,
                      [processed |-> st.processed \cup {part},
                       buffer    |-> Append(st.buffer, part),
                       appended  |-> Bump(st.appended, part.url),
                       announced |-> TRUE])
             ELSE AdvertiseParts(manifest, i + 1, st)

\* _fetch_advertised_parts: attempt `i` of the retry loop; outs[i + 1] is what
\* the (i+1)-th call of get_stream_playlist does.
RECURSIVE fetch_advertised_parts(_, _, _)
fetch_advertised_parts(i, outs, st) ==
    IF i >= FetchRange
    THEN [result |-> "ok", calls |-> i, timeouts |-> i, st |-> st]
    ELSE IF i > FetchRetryGuard
    THEN [result |-> "StreamFetchError", calls |-> i, timeouts |-> i, st |-> st]
    ELSE LET o == outs[i + 1]
         IN  CASE o.kind = "timeout"   -> fetch_advertised_parts(i + 1, outs, st)
               [] o.kind = "manifest"  ->
                    [result |-> "ok", calls |-> i + 1, timeouts |-> i,
                     st |-> AdvertiseParts(o.parts, 1, st)]
               [] o.kind = "not_found" ->
                    [result |-> "TwitchAPIErrorNotFound", calls |-> i + 1, timeouts |-> i, st |-> st]
               [] OTHER ->
                    [result |-> "RequestError", calls |-> i + 1, timeouts |-> i, st |-> st]

\* --------------------------------------------------------- Stream: build
UnsupportedLimit_Zero == 1 - 1
UnsupportedLimit == 1     \* if len(_unsupported_parts) > 1: raise

\* `if _part.title != 'live': continue` : the part is an advertisement.
IsAdvertisement_Never(part) == FALSE

IsAdvertisement(part) == part.title # "live"

\* _build_download_queue: the loop over _incoming_part_buffer from index i;
\* `added` collects the parts passed to add_part so far, in order.
RECURSIVE build_download_queue(_, _, _, _, _, _, _, _)
build_download_queue(buffer, i, unsupported, added, segs, cur, align, created) ==
    IF i > Len(buffer)
    THEN [raised |-> FALSE, segments |-> segs, current_id |-> cur, buffer |-> <<>>,
          added |-> added]
    ELSE LET part == buffer[i]
         IN  IF IsAdvertisement(part)
             THEN build_download_queue(buffer, i + 1, unsupported, added, segs, cur,
                                       align, created)
             ELSE LET unsupported1 ==
                          IF align /\ part.duration # NominalDuration
                          THEN PartSetAdd(unsupported, part) ELSE unsupported
                  IN  IF Cardinality(unsupported1) > UnsupportedLimit
                      THEN [raised |-> TRUE, segments |-> segs, current_id |-> cur,
                            buffer |-> buffer, added |-> added]
                      ELSE LET r == StreamSegmentList_add_part(segs, cur, align, created, part)
                           IN  build_download_queue(buffer, i + 1, unsupported1,
                                                    Append(added, part), r.segments,
                                                    r.current_id, align, created)

\* ------------------------------------------------------ Stream: download
\* The bytes a part url serves, as two chunks.
Payload(part) == << <<part.url, 1>>, <<part.url, 2>> >>

RECURSIVE ConcatPayloads(_)
ConcatPayloads(parts) ==
    IF parts = <<>> THEN <<>> ELSE Payload(Head(parts)) \o ConcatPayloads(Tail(parts))

\* What requests.get / iter_content does for one part:
\*   "ok"      status 200, every chunk delivered
\*   "status"  a status code other than 200
\*   "error"   RequestException before any chunk was written
\*   "partial" RequestException after the first chunk was written
PartOutcomes == {"ok", "status", "error", "partial"}

\* The loop over segment.parts writing into the temporary file.
RECURSIVE WriteParts(_, _, _, _)
WriteParts(parts, outs, i, content) ==
    IF i > Len(parts) THEN [returned |-> FALSE, content |-> content]
    ELSE CASE outs[i] = "ok"      -> WriteParts(parts, outs, i + 1, content \o Payload(parts[i]))
           [] outs[i] = "status"  -> [returned |-> TRUE, content |-> content]
           [] outs[i] = "partial" -> WriteParts(parts, outs, i + 1,
                                                Append(content, Payload(parts[i])[1]))
           [] OTHER               -> WriteParts(parts, outs, i + 1, content)

\* utils.safe_move: the temporary file becomes the destination file.
safe_move(files, id, content) == (id :> content) @@ files

\* _download_segment.  In the first iteration of `for _ in range(6)` the guard
\* `_ > 4` is false; the iteration ends in `return` (status code), `break`
\* (moved) or `raise` (move failed), so no later iteration is ever entered.
\* `attempts` counts the iterations of the loop that were entered.
download_segment(segment, outs, move_ok, files) ==
    LET w == WriteParts(segment.parts, outs, 1, <<>>)
    IN  IF w.returned
        THEN [result |-> "returned", files |-> files, content |-> w.content, attempts |-> 1]
        ELSE IF move_ok
        THEN [result |-> "moved", files |-> safe_move(files, segment.id, w.content),
              content |-> w.content, attempts |-> 1]
        ELSE [result |-> "StreamSegmentDownloadError", files |-> files,
              content |-> w.content, attempts |-> 1]

\* =================================================== registry specification
\* The registry driven directly: any add_part, any pop_segment of a present id.
ListDeltas == {d \in 0..MaxDelta : d % 8 = 0}

ListInit ==
    /\ segments = EmptySegments
    /\ align_segments \in BOOLEAN
    /\ \E start_id \in {-1, 0} : current_id = start_id + 1
    /\ stream_created_at = 100
    /\ lastOp = [op |-> "init"]
    /\ fed = <<>>
    /\ assigned = <<>>
    /\ StreamIdle

ListAddPart ==
    /\ Len(fed) < MaxAdds
    /\ \E d \in ListDeltas :
         LET part == Part(Len(fed) + 1, stream_created_at + d, NominalDuration, "live")
             r    == StreamSegmentList_add_part(segments, current_id, align_segments,
                                                stream_created_at, part)
         IN  /\ segments' = r.segments
             /\ current_id' = r.current_id
             /\ lastOp' = [op |-> "add_part", part |-> part]
             /\ fed' = Append(fed, part)
             /\ assigned' = Append(assigned, r.id)
    /\ UNCHANGED <<align_segments, stream_created_at, streamVars>>

ListPopSegment ==
    /\ \E k \in DOMAIN segments :
         /\ segments' = pop_segment(segments, k)
         /\ lastOp' = [op |-> "pop_segment", id |-> k]
    /\ UNCHANGED <<current_id, align_segments, stream_created_at, fed, assigned, streamVars>>

ListNext == ListAddPart \/ ListPopSegment

SpecList == ListInit /\ [][ListNext]_vars

\* C1: in alignment mode, when the segment named by the computed id
\* k = floor((4 + (timestamp - stream_created_at)) / 10) is absent or holds
\* fewer than 5 parts, add_part appends the part to segment k (creating it and
\* setting current_id = k when absent) and leaves every other segment unchanged.
C1_AddPartAppendsToComputedId ==
    [][ (lastOp'.op = "add_part" /\ align_segments /\ fed' # fed) =>
          LET p == lastOp'.part
              k == (4 + (p.timestamp - stream_created_at)) \div 10
          IN  (k \notin DOMAIN segments \/ Len(segments[k].parts) < 5) =>
                /\ DOMAIN segments' = DOMAIN segments \cup {k}
                /\ segments'[k].parts =
                     Append(IF k \in DOMAIN segments THEN segments[k].parts ELSE <<>>, p)
                /\ (k \notin DOMAIN segments => current_id' = k)
                /\ (k \in DOMAIN segments => current_id' = current_id)
                /\ \A j \in DOMAIN segments \ {k} : segments'[j] = segments[j]
      ]_vars

\* C1 witness: an aligned add_part appended its part to an already existing,
\* not yet full segment with the computed id, while another segment exists.
C1_Witness ==
    /\ lastOp.op = "add_part" /\ align_segments
    /\ LET k == (4 + (lastOp.part.timestamp - stream_created_at)) \div 10
       IN  /\ k \in DOMAIN segments
           /\ Len(segments[k].parts) \in 2..5
           /\ segments[k].parts[Len(segments[k].parts)] = lastOp.part
           /\ Cardinality(DOMAIN segments) >= 2

\* C2: when the segment with the computed id k is full (5 parts), add_part
\* puts the part alone into a newly created segment k+1, sets current_id = k+1,
\* and segment k keeps its 5 parts in their order.
C2_FullSegmentOverflowsToNext ==
    [][ (lastOp'.op = "add_part" /\ fed' # fed) =>
          LET p == lastOp'.part
              k == IF align_segments
                   THEN (4 + (p.timestamp - stream_created_at)) \div 10
                   ELSE current_id
          IN  (k \in DOMAIN segments /\ Len(segments[k].parts) = 5) =>
                /\ k + 1 \in DOMAIN segments'
                /\ segments'[k + 1].parts = <<p>>
                /\ segments'[k + 1].id = k + 1
                /\ current_id' = k + 1
                /\ segments'[k] = segments[k]
      ]_vars

\* C2 witness: a sixth part with the computed id of a full segment k was added
\* in alignment mode and sits alone in segment k+1.
C2_Witness ==
    /\ lastOp.op = "add_part" /\ align_segments
    /\ LET k == (4 + (lastOp.part.timestamp - stream_created_at)) \div 10
       IN  /\ k \in DOMAIN segments /\ Len(segments[k].parts) = 5
           /\ k + 1 \in DOMAIN segments
           /\ segments[k + 1].parts = <<lastOp.part>>
           /\ current_id = k + 1

\* =================================== increasing-timestamp specification
\* An aligning registry fed parts of nominal duration whose timestamps
\* strictly increase (first offset 0..MaxFirstDelta, gaps 1..MaxGap).
SeqInit ==
    /\ segments = EmptySegments
    /\ align_segments = TRUE
    /\ current_id = 0
    /\ stream_created_at = 100
    /\ lastOp = [op |-> "init"]
    /\ fed = <<>>
    /\ assigned = <<>>
    /\ StreamIdle

SeqAddPart ==
    /\ Len(fed) < MaxSeqParts
    /\ \E ts \in (IF fed = <<>> THEN {stream_created_at + d : d \in 0..MaxFirstDelta}
                  ELSE {fed[Len(fed)].timestamp + g : g \in 1..MaxGap}) :
         LET part == Part(Len(fed) + 1, ts, NominalDuration, "live")
             r    == StreamSegmentList_add_part(segments, current_id, align_segments,
                                                stream_created_at, part)
         IN  /\ segments' = r.segments
             /\ current_id' = r.current_id
             /\ lastOp' = [op |-> "add_part", part |-> part]
             /\ fed' = Append(fed, part)
             /\ assigned' = Append(assigned, r.id)
    /\ UNCHANGED <<align_segments, stream_created_at, streamVars>>

SeqNext == SeqAddPart

SpecSeq == SeqInit /\ [][SeqNext]_vars

FormulaId(i) == (4 + (fed[i].timestamp - stream_created_at)) \div 10

IdsFollowFormula ==
    /\ \A i \in 1..Len(fed) : assigned[i] = FormulaId(i)
    /\ \A i \in 1..(Len(fed) - 1) : assigned[i] <= assigned[i + 1]

TwoSecondsApart == \A i \in 1..(Len(fed) - 1) : fed[i + 1].timestamp = fed[i].timestamp + 2

\* C3 as stated: for strictly increasing timestamps every segment fills to
\* exactly 5 parts before a new id is created (so every segment but the newest
\* holds 5 parts), and the assigned ids are non-decreasing and equal the formula.
C3_Original ==
    /\ \A k \in DOMAIN segments : k # current_id => Len(segments[k].parts) = 5
    /\ IdsFollowFormula

\* C3 as amended: when each timestamp is exactly 2 s after the previous one,
\* the assigned ids are non-decreasing and equal the formula, and every segment
\* except the first one created and the newest holds exactly 5 parts.
C3_TwoSecondCadenceFillsSegments ==
    TwoSecondsApart =>
        /\ IdsFollowFormula
        /\ \A k \in DOMAIN segments :
              (k # current_id /\ k # assigned[1]) => Len(segments[k].parts) = 5
        /\ \A k \in DOMAIN segments : Len(segments[k].parts) <= 5

\* C3 witness: a 2 s cadence that started mid-window: a short first segment,
\* a full second one and a third one begun.
C3_Witness ==
    /\ TwoSecondsApart /\ Len(fed) >= 7
    /\ Cardinality(DOMAIN segments) = 3
    /\ \E k \in DOMAIN segments :
          /\ k # current_id /\ k # assigned[1] /\ Len(segments[k].parts) = 5
    /\ Len(segments[assigned[1]].parts) < 5

ScenarioFed ==
    /\ Len(fed) = 5
    /\ \A i \in 1..5 : fed[i].timestamp = stream_created_at + 2 * i
    /\ \A i \in 1..5 : fed[i].duration = 20 /\ fed[i].title = "live"

\* C4 as stated: parts at T+2, T+4, T+6, T+8, T+10 all land in segment 1,
\* which is then full with duration 10.0.
C4_Original ==
    ScenarioFed =>
        /\ 1 \in DOMAIN segments
        /\ segments[1].parts = fed
        /\ is_full(segments[1])
        /\ segments[1].duration = 100

\* C4 as amended: parts at T+2 and T+4 land in segment 0, parts at T+6, T+8
\* and T+10 land in segment 1, which is then not full and has duration 6.0.
C4_ScenarioSplitsAcrossTwoSegments ==
    ScenarioFed =>
        /\ DOMAIN segments = {0, 1}
        /\ segments[0].parts = SubSeq(fed, 1, 2)
        /\ segments[1].parts = SubSeq(fed, 3, 5)
        /\ ~is_full(segments[1])
        /\ segments[1].duration = 60
        /\ segments[0].duration = 40

\* C4 witness: the five parts of the scenario have been added.
C4_Witness == ScenarioFed /\ assigned = <<0, 0, 1, 1, 1>>

\* ================================================ segment fetcher specification
\* One call of _download_segment on a segment of 1..5 live parts, with every
\* per-part download outcome and both outcomes of the relocation.
FetchSegmentOf(k, n) ==
    [id |-> k,
     parts |-> [u \in 1..n |-> Part(u, 100 + 4 + 2 * u, NominalDuration, "live")],
     duration |-> n * NominalDuration]

FetchInit ==
    /\ \E k \in {0, 1}, n \in 1..SegmentSize :
         /\ segments = (k :> FetchSegmentOf(k, n))
         /\ current_id = k
    /\ align_segments = TRUE
    /\ stream_created_at = 100
    /\ lastOp = [op |-> "init"]
    /\ fed = <<>>
    /\ assigned = <<>>
    /\ processed_parts = {}
    /\ incoming_part_buffer = <<>>
    /\ last_part_announce_age = 0
    /\ start_timestamp_age = 0
    /\ pc = "fetcher"
    /\ err = [type |-> "none"]
    /\ output_dir = NoFiles
    /\ appended = <<>>
    /\ session_log = NoSessionLog
    /\ Constructed

FetchDownloadSegment ==
    /\ pc = "fetcher"
    /\ \E k \in DOMAIN segments :
       \E outs \in [1..Len(segments[k].parts) -> PartOutcomes], move_ok \in BOOLEAN :
         LET r == download_segment(segments[k], outs, move_ok, output_dir)
         IN  /\ output_dir' = r.files
             /\ lastOp' = [op |-> "download_segment", segment |-> segments[k],
                           outs |-> outs, result |-> r.result, content |-> r.content,
                           attempts |-> r.attempts]
             /\ err' = IF r.result = "StreamSegmentDownloadError"
                       THEN [type |-> "StreamSegmentDownloadError"] ELSE [type |-> "none"]
    /\ pc' = "fetched"
    /\ UNCHANGED <<setupVars, segments, current_id, align_segments, stream_created_at, fed, assigned,
                   processed_parts, incoming_part_buffer, last_part_announce_age,
                   start_timestamp_age, appended, session_log>>

FetchNext == FetchDownloadSegment

SpecFetch == FetchInit /\ [][FetchNext]_vars

\* C10 as stated: whenever _download_segment relocates a file to {id}.ts, its
\* content is the concatenation of the payloads of all parts of the segment
\* in order, and no part of that attempt had a non-success status or failed.
C10_Original ==
    (lastOp.op = "download_segment" /\ lastOp.result = "moved") =>
        /\ output_dir[lastOp.segment.id] = ConcatPayloads(lastOp.segment.parts)
        /\ \A i \in 1..Len(lastOp.segment.parts) : lastOp.outs[i] = "ok"

\* C11 as stated: when a part download of _download_segment fails with a
\* network error, the segment download is attempted again from its first part
\* (a second attempt is entered), and the failed attempt relocates no file.
NetworkErrorHit(outs) ==
    \E i \in DOMAIN outs :
        /\ outs[i] \in {"error", "partial"}
        /\ \A j \in 1..(i - 1) : outs[j] # "status"

C11_Original ==
    (lastOp.op = "download_segment" /\ NetworkErrorHit(lastOp.outs)) =>
        /\ lastOp.attempts >= 2
        /\ lastOp.result # "moved"

\* ======================================================= session specification
\* One capture session of a constructed Stream: start() looping over
\* single_download_pass.  The broadcast advertises parts with urls 1..MaxUrl,
\* 2 s apart; a manifest lists a window of at most ManifestLen of them, each
\* with any title and duration, and may list parts seen before.
PartTitles == {"live", "ad"}
PartDurations == {NominalDuration, 15}
PartVariants == PartDurations \X PartTitles

BroadcastPart(u, v) == Part(u, stream_created_at + 4 + 2 * u, v[1], v[2])

\* The broadcast never skips a part: the window of a manifest starts at or
\* before the first part that has not been advertised yet.
LastAdvertised ==
    IF processed_parts = {} THEN 0
    ELSE CHOOSE u \in {q.url : q \in processed_parts} :
             \A q \in processed_parts : q.url <= u

Windows ==
    {w \in (1..MaxUrl) \X (1..MaxUrl) :
        /\ w[1] <= w[2]
        /\ w[2] - w[1] + 1 <= ManifestLen
        /\ w[1] <= LastAdvertised + 1}

Manifests ==
    {<<>>} \cup
    UNION { { [i \in 1..(w[2] - w[1] + 1) |-> BroadcastPart(w[1] + i - 1, v[w[1] + i - 1])] :
                v \in [w[1]..w[2] -> PartVariants] } :
            w \in Windows }

ManifestOutcomes == {[kind |-> "manifest", parts |-> m] : m \in Manifests}

IsNominalLive(m) ==
    \A i \in 1..Len(m) : m[i].title = "live" /\ m[i].duration = NominalDuration

LiveManifestOutcomes == {o \in ManifestOutcomes : IsNominalLive(o.parts)}

\* What the part downloads and the relocation of one _download_segment call do.
AllOk(seg) == [i \in 1..Len(seg.parts) |-> "ok"]

DownloadInputs(seg) ==
    {<<AllOk(seg), TRUE>>, <<AllOk(seg), FALSE>>} \cup
    (IF seg.parts = <<>> THEN {}
     ELSE {<<[AllOk(seg) EXCEPT ![1] = "status"], TRUE>>})

AgeAfter(age, dt, cap) == IF age + dt > cap THEN cap ELSE age + dt

LogDownload(log) ==
    IF log.notfound
    THEN [log EXCEPT !.flushes = IF @ < MaxCount THEN @ + 1 ELSE @]
    ELSE log

StreamInit ==
    /\ segments = EmptySegments
    /\ align_segments \in BOOLEAN
    /\ current_id = 0
    /\ stream_created_at = 100
    /\ lastOp = [op |-> "init"]
    /\ fed = <<>>
    /\ assigned = <<>>
    /\ processed_parts = {}
    /\ incoming_part_buffer = <<>>
    /\ last_part_announce_age = (IF align_segments THEN 0 ELSE 2)
    /\ start_timestamp_age = 0
    /\ pc = "start"
    /\ err = [type |-> "none"]
    /\ output_dir = NoFiles
    /\ appended = <<>>
    /\ session_log = NoSessionLog
    /\ Constructed

\* start(): _start_timestamp is taken once, before the loop.
Start ==
    /\ pc = "start"
    /\ pc' = "fetch"
    /\ start_timestamp_age' = 0
    /\ lastOp' = [op |-> "start"]
    /\ UNCHANGED <<setupVars, segments, current_id, align_segments, stream_created_at, fed, assigned,
                   processed_parts, incoming_part_buffer, last_part_announce_age, err,
                   output_dir, appended, session_log>>

\* One second of wall-clock time passes while the session waits on the network.
Tick ==
    /\ pc \in {"fetch", "download"}
    /\ \/ last_part_announce_age <= AnnounceTimeout
       \/ start_timestamp_age < LoopCadence
    /\ last_part_announce_age' = AgeAfter(last_part_announce_age, 1, AnnounceTimeout + 1)
    /\ start_timestamp_age' = AgeAfter(start_timestamp_age, 1, LoopCadence)
    /\ UNCHANGED <<setupVars, listVars, processed_parts, incoming_part_buffer, pc, err, output_dir,
                   appended, session_log>>

\* single_download_pass, step 1: _fetch_advertised_parts, in an environment
\* whose manifest fetch answers with one of `outcomes` after a number of
\* consecutive connection timeouts drawn from `timeouts`.
FetchStep(timeouts, outcomes) ==
    /\ pc = "fetch"
    /\ \E n \in timeouts, final \in outcomes :
         LET outs == [j \in 1..(n + 1) |-> IF j <= n THEN [kind |-> "timeout"] ELSE final]
             r == fetch_advertised_parts(0, outs,
                      [processed |-> processed_parts, buffer |-> incoming_part_buffer,
                       appended |-> appended, announced |-> FALSE])
         IN  /\ processed_parts' = r.st.processed
             /\ incoming_part_buffer' = r.st.buffer
             /\ appended' = r.st.appended
             /\ last_part_announce_age' =
                    IF r.st.announced THEN 0 ELSE last_part_announce_age
             /\ lastOp' = [op |-> "fetch", calls |-> r.calls,
                           timeouts |-> r.timeouts, result |-> r.result,
                           changed |-> /\ r.result = "ok"
                                       /\ \E i \in 1..Len(final.parts) :
                                          \E q \in processed_parts :
                                              /\ q.url = final.parts[i].url
                                              /\ q # final.parts[i]]
             /\ pc' = CASE r.result = "ok" -> "build"
                        [] r.result = "TwitchAPIErrorNotFound" -> "offline"
                        [] OTHER -> "raised"
             /\ err' = IF r.result \in {"ok", "TwitchAPIErrorNotFound"} THEN err
                       ELSE [type |-> "StreamDownloadError", cause |-> r.result]
             /\ session_log' =
                    IF r.result = "TwitchAPIErrorNotFound" /\ ~session_log.notfound
                    THEN [session_log EXCEPT !.notfound = TRUE,
                                             !.after_completed = session_log.completed > 0]
                    ELSE session_log
    /\ UNCHANGED <<setupVars, segments, current_id, align_segments, stream_created_at, fed, assigned,
                   start_timestamp_age, output_dir>>

\* Any manifest (parts of any title and duration) or a failed request; no
\* connection timeout and no end of the broadcast.
FetchAdvertisedParts ==
    FetchStep({0}, ManifestOutcomes \cup {[kind |-> "request_error"]})

\* A broadcast of nominal live parts only, with failed requests and not-found
\* responses.
FetchAdvertisedLiveParts ==
    FetchStep({0},
              LiveManifestOutcomes \cup {[kind |-> "not_found"], [kind |-> "request_error"]})

\* The same broadcast behind a network with connection timeouts.
FetchWithTimeouts ==
    FetchStep(0..MaxTimeouts,
              LiveManifestOutcomes \cup {[kind |-> "not_found"], [kind |-> "request_error"]})

\* single_download_pass, step 2: _build_download_queue.
BuildDownloadQueue ==
    /\ pc = "build"
    /\ LET r == build_download_queue(incoming_part_buffer, 1, {}, <<>>, segments, current_id,
                                     align_segments, stream_created_at)
       IN  /\ segments' = r.segments
           /\ current_id' = r.current_id
           /\ incoming_part_buffer' = r.buffer
           /\ lastOp' = [op |-> "build", buffer |-> incoming_part_buffer, raised |-> r.raised,
                         added |-> r.added]
           /\ pc' = IF r.raised THEN "raised" ELSE "download"
           /\ err' = IF r.raised
                     THEN [type |-> "StreamDownloadError",
                           cause |-> "UnsupportedStreamPartDuration"]
                     ELSE err
    /\ UNCHANGED <<setupVars, align_segments, stream_created_at, fed, assigned, processed_parts,
                   last_part_announce_age, start_timestamp_age, output_dir, appended,
                   session_log>>

\* single_download_pass, step 3: _download_queued_segments, one completed
\* segment per step, in the iteration order of the id set.
DownloadQueuedSegments ==
    /\ pc = "download"
    /\ get_completed_segment_ids(segments) # {}
    /\ \E k \in get_completed_segment_ids(segments) :
       \E in \in DownloadInputs(segments[k]) :
         LET r == download_segment(segments[k], in[1], in[2], output_dir)
         IN  /\ segments' = pop_segment(segments, k)
             /\ output_dir' = r.files
             /\ lastOp' = [op |-> "download_segment", segment |-> segments[k],
                           outs |-> in[1], result |-> r.result, content |-> r.content]
             /\ session_log' = [LogDownload(session_log) EXCEPT !.completed = @ + 1]
             /\ pc' = IF r.result = "StreamSegmentDownloadError" THEN "raised" ELSE "download"
             /\ err' = IF r.result = "StreamSegmentDownloadError"
                       THEN [type |-> "StreamDownloadError", cause |-> r.result]
                       ELSE err
    /\ UNCHANGED <<setupVars, current_id, align_segments, stream_created_at, fed, assigned,
                   processed_parts, incoming_part_buffer, last_part_announce_age,
                   start_timestamp_age, appended>>

PassDone ==
    /\ pc = "download"
    /\ get_completed_segment_ids(segments) = {}
    /\ pc' = "check"
    /\ lastOp' = [op |-> "pass_done"]
    /\ UNCHANGED <<setupVars, segments, current_id, align_segments, stream_created_at, fed, assigned,
                   processed_parts, incoming_part_buffer, last_part_announce_age,
                   start_timestamp_age, err, output_dir, appended, session_log>>

\* _get_final_segment, after which control is at next_pc.  Neither caller
\* (the not-found handler, start) wraps what _download_segment raises.
GetFinalSegment(next_pc) ==
    IF is_segment_present(segments, current_id)
    THEN \E in \in DownloadInputs(segments[current_id]) :
           LET r == download_segment(segments[current_id], in[1], in[2], output_dir)
           IN  /\ output_dir' = r.files
               /\ lastOp' = [op |-> "final_segment", segment |-> segments[current_id],
                             outs |-> in[1], result |-> r.result, content |-> r.content,
                             age |-> last_part_announce_age, from |-> pc]
               /\ session_log' = LogDownload(session_log)
               /\ pc' = IF r.result = "StreamSegmentDownloadError" THEN "raised" ELSE next_pc
               /\ err' = IF r.result = "StreamSegmentDownloadError"
                         THEN [type |-> "StreamSegmentDownloadError"]
                         ELSE err
    ELSE /\ pc' = next_pc
         /\ lastOp' = [op |-> "final_segment", result |-> "absent",
                       age |-> last_part_announce_age, from |-> pc]
         /\ UNCHANGED <<output_dir, session_log, err>>

\* single_download_pass, `except TwitchAPIErrorNotFound`.
StreamOffline ==
    /\ pc = "offline"
    /\ GetFinalSegment("check")
    /\ UNCHANGED <<setupVars, segments, current_id, align_segments, stream_created_at, fed, assigned,
                   processed_parts, incoming_part_buffer, last_part_announce_age,
                   start_timestamp_age, appended>>

\* utils.time_since_date: the seconds elapsed since the given moment.
time_since_date(age) == age

\* start(), after the pass: the broadcast has ended.
StreamEnded ==
    /\ pc = "check"
    /\ time_since_date(last_part_announce_age) > AnnounceTimeout
    /\ GetFinalSegment("returned")
    /\ UNCHANGED <<setupVars, segments, current_id, align_segments, stream_created_at, fed, assigned,
                   processed_parts, incoming_part_buffer, last_part_announce_age,
                   start_timestamp_age, appended>>

\* start(), after the pass: sleep for the rest of the cadence, then loop.
SleepAndLoop ==
    /\ pc = "check"
    /\ ~(time_since_date(last_part_announce_age) > AnnounceTimeout)
    /\ LET loop_time == start_timestamp_age
           slept == IF loop_time < LoopCadence THEN LoopCadence - loop_time ELSE 0
       IN  /\ last_part_announce_age' =
                  AgeAfter(last_part_announce_age, slept, AnnounceTimeout + 1)
           /\ start_timestamp_age' = AgeAfter(start_timestamp_age, slept, LoopCadence)
           /\ lastOp' = [op |-> "sleep", slept |-> slept]
    /\ pc' = "fetch"
    /\ UNCHANGED <<setupVars, segments, current_id, align_segments, stream_created_at, fed, assigned,
                   processed_parts, incoming_part_buffer, err, output_dir, appended,
                   session_log>>

\* Passes of a session on a live broadcast whose steps take no measurable
\* time: the clock moves only in the cadence sleep, so the end-of-broadcast
\* timeout never fires.
PassNext ==
    \/ Start
    \/ FetchAdvertisedParts
    \/ BuildDownloadQueue
    \/ DownloadQueuedSegments
    \/ PassDone
    \/ SleepAndLoop

SpecPass == StreamInit /\ [][PassNext]_vars

\* Passes of a session on a broadcast of nominal live parts that may end,
\* behind a network with connection timeouts; steps take no measurable time.
RetryNext ==
    \/ Start
    \/ FetchWithTimeouts
    \/ BuildDownloadQueue
    \/ DownloadQueuedSegments
    \/ PassDone
    \/ StreamOffline
    \/ SleepAndLoop

SpecRetry == StreamInit /\ [][RetryNext]_vars

\* The whole session, wall-clock time included, on a broadcast of nominal
\* live parts.
StreamStep ==
    \/ Start
    \/ FetchAdvertisedLiveParts
    \/ BuildDownloadQueue
    \/ DownloadQueuedSegments
    \/ PassDone
    \/ StreamOffline
    \/ StreamEnded
    \/ SleepAndLoop

StreamNext == StreamStep \/ Tick

SpecStream == StreamInit /\ [][StreamNext]_vars

\* The session's single thread always takes its next step, and wall-clock
\* time keeps advancing however fast the passes follow each other.
SpecStreamFair == SpecStream /\ WF_vars(StreamStep) /\ SF_vars(Tick)

\* ---------------------------------------------------------------- C5
\* C5: over any sequence of manifest fetches, each part, identified by its url
\* alone, is appended to the incoming part buffer at most once, and so is
\* offered to the registry at most once: no url is buffered twice, held twice
\* by the registry, or (while the session runs) left in the buffer once it is
\* in the registry.
RegistryUrls ==
    UNION { {segments[k].parts[i].url : i \in 1..Len(segments[k].parts)} : k \in DOMAIN segments }

C5_EachUrlBufferedOnce ==
    /\ \A u \in DOMAIN appended : appended[u] <= 1
    /\ \A i, j \in 1..Len(incoming_part_buffer) :
          incoming_part_buffer[i].url = incoming_part_buffer[j].url => i = j
    /\ \A k1, k2 \in DOMAIN segments :
       \A i \in 1..Len(segments[k1].parts), j \in 1..Len(segments[k2].parts) :
          segments[k1].parts[i].url = segments[k2].parts[j].url => (k1 = k2 /\ i = j)
    /\ pc \notin {"build", "raised"} =>
          \A i \in 1..Len(incoming_part_buffer) :
              incoming_part_buffer[i].url \notin RegistryUrls

\* C5 witness: a manifest listed an already processed url with other fields,
\* and the buffer received nothing for it.
C5_Witness ==
    /\ lastOp.op = "fetch" /\ lastOp.changed
    /\ incoming_part_buffer = <<>>
    /\ Cardinality(processed_parts) >= 2

\* ---------------------------------------------------------------- C6
AnomalousLive(buffer) ==
    {i \in 1..Len(buffer) : buffer[i].title = "live" /\ buffer[i].duration # 20}

\* C6: a pass of _build_download_queue raises UnsupportedStreamPartDuration iff
\* alignment is on and two or more live parts of that pass's buffer have a
\* duration other than 2.0; with exactly one such part it does not raise and
\* the part is in the registry afterwards; earlier passes do not count.
C6_RaisesIffTwoAnomalousParts ==
    [][ pc = "build" =>
          LET n == Cardinality(AnomalousLive(incoming_part_buffer))
          IN  /\ (pc' = "raised" /\ err'.type = "StreamDownloadError"
                                 /\ err'.cause = "UnsupportedStreamPartDuration")
                    <=> (align_segments /\ n >= 2)
              /\ pc' = "raised" <=> (align_segments /\ n >= 2)
              /\ n = 1 =>
                   /\ pc' = "download"
                   /\ \A i \in AnomalousLive(incoming_part_buffer) :
                        \E k \in DOMAIN segments' :
                          \E j \in 1..Len(segments'[k].parts) :
                             segments'[k].parts[j] = incoming_part_buffer[i]
      ]_vars

\* C6 witness: an aligning session took one anomalous live part in each of two
\* passes and went on.
C6_Witness ==
    /\ align_segments /\ pc = "download" /\ lastOp.op = "build"
    /\ Cardinality(AnomalousLive(lastOp.buffer)) = 1
    /\ \E k \in DOMAIN segments :
          Cardinality({i \in 1..Len(segments[k].parts) :
                          segments[k].parts[i].duration # 20}) >= 2

\* ---------------------------------------------------------------- C7
\* C7 as stated: 5 consecutive timeouts are retried with a further fetch, and
\* StreamFetchError is raised only when a 6th consecutive fetch fails.
C7_Original ==
    lastOp.op = "fetch" =>
        /\ lastOp.timeouts = 5 => lastOp.calls = 6
        /\ lastOp.result = "StreamFetchError" => lastOp.timeouts = 6

\* C7 as amended: up to 4 consecutive timeouts are retried with a further
\* fetch and no error; StreamFetchError is raised exactly when the 5th
\* consecutive fetch times out, and no 6th fetch is attempted.
C7_FifthTimeoutRaises ==
    lastOp.op = "fetch" =>
        /\ lastOp.timeouts <= 4 =>
              (lastOp.calls = lastOp.timeouts + 1 /\ lastOp.result # "StreamFetchError")
        /\ lastOp.result = "StreamFetchError" <=> lastOp.timeouts = 5
        /\ lastOp.result = "StreamFetchError" =>
              /\ lastOp.calls = 5
              /\ pc = "raised"
              /\ err = [type |-> "StreamDownloadError", cause |-> "StreamFetchError"]
        /\ lastOp.timeouts <= 5

\* C7 witnesses: a pass that raised after its 5th timeout.
C7_Witness ==
    /\ lastOp.op = "fetch" /\ lastOp.result = "StreamFetchError"
    /\ lastOp.calls = 5 /\ pc = "raised"

EndsAtBoundary ==
    [][ /\ (pc = "check" /\ last_part_announce_age > 20) =>
              /\ lastOp'.op = "final_segment"
              /\ current_id \in DOMAIN segments =>
                    (lastOp'.result # "absent" /\ lastOp'.segment = segments[current_id])
              /\ current_id \notin DOMAIN segments => lastOp'.result = "absent"
              /\ pc' \in {"returned", "raised"}
              /\ pc' = "raised" <=> lastOp'.result = "StreamSegmentDownloadError"
        /\ (pc' = "returned" /\ pc # "returned") =>
              (pc = "check" /\ last_part_announce_age > 20)
        /\ (pc = "check" /\ last_part_announce_age <= 20) => pc' = "fetch"
      ]_vars

\* C9 as stated: at the first pass boundary at which more than 20 s have passed
\* since the last new part was announced, start() flushes the segment at
\* current_id and returns normally.
C9_Original ==
    [][ (pc = "check" /\ last_part_announce_age > 20) => pc' = "returned" ]_vars

\* C9 as amended: at the first pass boundary at which more than 20 s have
\* passed since the last new part was announced, start() flushes the segment
\* at current_id if present and returns normally, unless the relocation of
\* that flush fails, which raises StreamSegmentDownloadError to the caller;
\* it returns at no other point; and every session eventually terminates
\* once no new part is announced.
C9_EndsAfterQuietPeriod ==
    /\ EndsAtBoundary
    /\ <>(pc \in {"returned", "raised"})

\* C9 witness: start() returned after flushing a present trailing segment at a
\* boundary more than 20 s after the last announcement.
C9_Witness ==
    /\ pc = "returned"
    /\ lastOp.op = "final_segment" /\ lastOp.result = "moved"
    /\ lastOp.age > 20 /\ lastOp.from = "check"

BufferUntil == 120        \* stream.duration < 120; 120 - stream_length

SetupDurations == {BufferUntil - 4 * n - r : n \in 0..MaxBufferPasses, r \in {0, 2}}

\* utils.build_output_dir_name: the directory named without an archive
\* identity (the temporary buffer) and the one named with the identity.
build_output_dir_name(v_id) == IF v_id = 0 THEN "buffer" ELSE "vod"

\* The content of a file left by an earlier session in the buffer directory
\* (tag 0) or in the directory named with the archive identity (tag 1).
OldFile(tag) == << <<0, tag>> >>

ExistingDirs(tag) ==
    {NoDir} \cup {[present |-> TRUE, files |-> [k \in ids |-> OldFile(tag)]] :
                     ids \in SUBSET (0..MaxExistingId)}

\* Path.mkdir(parents=True, exist_ok=True) and shutil.rmtree.
mkdir(d, name) == [d EXCEPT ![name].present = TRUE]

rmtree_Keep(d, name) == d

rmtree(d, name) == [d EXCEPT ![name] = NoDir]

\* The ids of the files glob(Path(output_dir, '*.ts')) lists.
glob_ts(dir) == DOMAIN dir.files

\* _latest_segment.id : MpegSegment(-1, 0) unless a completed segment exists.
latest_segment_id(completed) ==
    IF completed = {} THEN -1
    ELSE CHOOSE k \in completed : \A j \in completed : j <= k

\* StreamSegmentList.__init__.
StreamSegmentList_NoIncrement(start_id) ==
    [segments |-> EmptySegments, current_id |-> start_id]

StreamSegmentList(start_id) ==
    [segments |-> EmptySegments, current_id |-> start_id + 1]

SetupInit ==
    /\ segments = EmptySegments
    /\ current_id = 0
    /\ align_segments = TRUE
    /\ stream_created_at = 100
    /\ lastOp = [op |-> "init"]
    /\ fed = <<>>
    /\ assigned = <<>>
    /\ processed_parts = {}
    /\ incoming_part_buffer = <<>>
    /\ last_part_announce_age = 0
    /\ start_timestamp_age = 0
    /\ pc = "setup"
    /\ err = [type |-> "none"]
    /\ output_dir = NoFiles
    /\ appended = <<>>
    /\ session_log = NoSessionLog
    /\ stream \in {[online |-> FALSE, duration |-> 0, v_id |-> 0]} \cup
                  [online : {TRUE}, duration : SetupDurations, v_id : {0, 1}]
    /\ output_path = "None"
    /\ dirs \in [buffer : ExistingDirs(0), vod : ExistingDirs(1)]
    /\ buffer_passes = 0
    /\ completed_segments = {}
    /\ download_queue = "None"

\* _do_setup up to the lookup of the archive identity, with the entry of
\* _buffer_stream (the temporary directory is created) when it is called.
DoSetup ==
    /\ pc = "setup"
    /\ lastOp' = [op |-> "setup"]
    /\ IF ~stream.online
       THEN /\ pc' = "raised"
            /\ err' = [type |-> "StreamOfflineError"]
            /\ UNCHANGED <<output_path, dirs, buffer_passes>>
       ELSE IF stream.duration < BufferUntil /\ stream.v_id = 0
       THEN /\ output_path' = build_output_dir_name(0)
            /\ dirs' = mkdir(dirs, build_output_dir_name(0))
            /\ buffer_passes' = (BufferUntil - stream.duration) \div 4
            /\ pc' = "buffering"
            /\ UNCHANGED err
       ELSE /\ pc' = "lookup"
            /\ UNCHANGED <<output_path, dirs, buffer_passes, err>>
    /\ UNCHANGED <<segments, current_id, align_segments, stream_created_at, fed, assigned,
                   processed_parts, incoming_part_buffer, last_part_announce_age,
                   start_timestamp_age, output_dir, appended, session_log, stream,
                   completed_segments, download_queue>>

\* _buffer_stream: one iteration of its loop, a single_download_pass followed
\* by the cadence sleep.  _buffer_stream is called before _download_queue is
\* built, so _build_download_queue fails on its first live part
\* (None.add_part) and _download_queued_segments fails on
\* None.get_completed_segment_ids(); the not-found handler skips the flush
\* because _download_queue is None.
BufferStreamPass ==
    /\ pc = "buffering"
    /\ buffer_passes > 0
    /\ download_queue = "None"
    /\ \E final \in ManifestOutcomes \cup {[kind |-> "not_found"], [kind |-> "request_error"]} :
         LET r == fetch_advertised_parts(0, <<final>>,
                      [processed |-> processed_parts, buffer |-> incoming_part_buffer,
                       appended |-> appended, announced |-> FALSE])
             live == \E i \in 1..Len(r.st.buffer) : r.st.buffer[i].title = "live"
             raised == r.result # "TwitchAPIErrorNotFound"
             announce_age == IF r.st.announced THEN 0 ELSE last_part_announce_age
         IN  /\ processed_parts' = r.st.processed
             /\ incoming_part_buffer' = IF r.result = "ok" /\ ~live THEN <<>> ELSE r.st.buffer
             /\ appended' = r.st.appended
             /\ last_part_announce_age' =
                    IF raised THEN announce_age
                    ELSE AgeAfter(announce_age, LoopCadence, AnnounceTimeout + 1)
             /\ lastOp' = [op |-> "buffer_pass", result |-> r.result,
                           parts |-> IF final.kind = "manifest" THEN final.parts ELSE <<>>,
                           raised |-> raised]
             /\ pc' = IF raised THEN "raised" ELSE "buffering"
             /\ err' = IF raised
                       THEN [type |-> "StreamDownloadError",
                             cause |-> IF r.result = "ok" THEN "AttributeError" ELSE r.result]
                       ELSE err
             /\ buffer_passes' = IF raised THEN buffer_passes ELSE buffer_passes - 1
    /\ UNCHANGED <<segments, current_id, align_segments, stream_created_at, fed, assigned,
                   start_timestamp_age, output_dir, session_log, stream, output_path, dirs,
                   completed_segments, download_queue>>

\* _buffer_stream after its loop: the remaining time is slept.
BufferStreamDone ==
    /\ pc = "buffering"
    /\ buffer_passes = 0
    /\ last_part_announce_age' =
           AgeAfter(last_part_announce_age, (BufferUntil - stream.duration) % 4,
                    AnnounceTimeout + 1)
    /\ lastOp' = [op |-> "buffered"]
    /\ pc' = "lookup"
    /\ UNCHANGED <<segments, current_id, align_segments, stream_created_at, fed, assigned,
                   processed_parts, incoming_part_buffer, start_timestamp_age, err,
                   output_dir, appended, session_log, setupVars>>

\* _do_setup from the lookup of the archive identity to its end.  With
\* output_dir still None, Path(self.output_dir, '*.ts') raises TypeError.
DoSetupFinish ==
    /\ pc = "lookup"
    /\ \E v \in {0, 1} :
         LET found == v # 0
             dirs1 == IF found /\ output_path # "None" THEN rmtree(dirs, output_path) ELSE dirs
             dirs2 == IF found THEN mkdir(dirs1, build_output_dir_name(v)) ELSE dirs1
             path == IF found THEN build_output_dir_name(v) ELSE output_path
         IN  /\ stream' = [stream EXCEPT !.v_id = v]
             /\ align_segments' = IF found THEN align_segments ELSE FALSE
             /\ dirs' = dirs2
             /\ output_path' = path
             /\ lastOp' = [op |-> "setup_finish", v_id |-> v,
                           buffered |-> output_path = "buffer", buffer_dir |-> dirs.buffer]
             /\ IF path = "None"
                THEN /\ pc' = "raised"
                     /\ err' = [type |-> "TypeError"]
                     /\ UNCHANGED <<segments, current_id, output_dir, completed_segments,
                                    download_queue>>
                ELSE LET completed == completed_segments \cup glob_ts(dirs2[path])
                         queue == StreamSegmentList(latest_segment_id(completed))
                     IN  /\ completed_segments' = completed
                         /\ segments' = queue.segments
                         /\ current_id' = queue.current_id
                         /\ download_queue' = "StreamSegmentList"
                         /\ output_dir' = dirs2[path].files
                         /\ pc' = "start"
                         /\ UNCHANGED err
    /\ UNCHANGED <<stream_created_at, fed, assigned, processed_parts, incoming_part_buffer,
                   last_part_announce_age, start_timestamp_age, appended, session_log,
                   buffer_passes>>

SetupNext ==
    \/ DoSetup
    \/ BufferStreamPass
    \/ BufferStreamDone
    \/ DoSetupFinish
    \/ Start
    \/ FetchAdvertisedLiveParts
    \/ BuildDownloadQueue

SpecSetup == SetupInit /\ [][SetupNext]_vars

\* ---------------------------------------------------------------- C13
\* C13: when a Stream is constructed in non-alignment mode over an output
\* directory that holds segment files of an earlier session with highest id H,
\* the first segment its registry creates has id H + 1 (id 0 when there is no
\* file), which is the id of no pre-existing file.
HighestExistingId ==
    IF DOMAIN output_dir = {} THEN -1
    ELSE CHOOSE k \in DOMAIN output_dir : \A j \in DOMAIN output_dir : j <= k

C13_FirstSegmentAfterResume ==
    /\ (lastOp.op = "setup_finish" /\ pc = "start" /\ ~align_segments) =>
           current_id = HighestExistingId + 1
    /\ (lastOp.op = "build" /\ ~align_segments /\ segments # EmptySegments) =>
           /\ DOMAIN segments = {HighestExistingId + 1}
           /\ DOMAIN segments \cap DOMAIN output_dir = {}

\* C13 witness: the first pass after a resume over files 0 and 1 has created
\* segment 2 and put a part in it.
C13_Witness ==
    /\ lastOp.op = "build"
    /\ ~align_segments
    /\ DOMAIN output_dir = {0, 1}
    /\ DOMAIN segments = {2}
    /\ Len(segments[2].parts) >= 1

\* ---------------------------------------------------------------- C14
\* C14 as stated: every pass of the startup buffering phase whose manifest
\* fetch succeeds with nominal live parts completes without a session-fatal
\* error, its parts being handed to the registry.
C14_Original ==
    (/\ lastOp.op = "buffer_pass"
     /\ lastOp.result = "ok"
     /\ lastOp.parts # <<>>
     /\ IsNominalLive(lastOp.parts)) =>
        /\ pc # "raised"
        /\ err.type = "none"
        /\ incoming_part_buffer = <<>>

\* ---------------------------------------------------------------- C15
\* C15 as stated: when the lookup that follows startup buffering finds the
\* archive identity, the files of the temporary buffer are still available to
\* the session after setup (in the buffer directory or in the output
\* directory), and alignment mode is enabled.
C15_Original ==
    (lastOp.op = "setup_finish" /\ lastOp.buffered /\ lastOp.v_id # 0) =>
        /\ align_segments
        /\ \A k \in DOMAIN lastOp.buffer_dir.files :
               \/ k \in DOMAIN dirs.buffer.files /\ dirs.buffer.present
               \/ k \in DOMAIN output_dir /\ output_dir[k] = lastOp.buffer_dir.files[k]

\* C15 (amended): when the lookup that follows startup buffering finds the
\* archive identity, the temporary buffer directory is deleted with every file
\* in it, the output directory is the one named with the identity and holds
\* only what that directory held before, the registry is built and alignment
\* mode stays enabled on the broadcast start time.
C15_BufferDiscardedWhenIdentityFound ==
    (lastOp.op = "setup_finish" /\ lastOp.buffered /\ lastOp.v_id # 0) =>
        /\ align_segments
        /\ dirs.buffer = NoDir
        /\ output_path = build_output_dir_name(lastOp.v_id)
        /\ output_path # build_output_dir_name(0)
        /\ output_dir = dirs[output_path].files
        /\ \A k \in DOMAIN output_dir : output_dir[k] = OldFile(1)
        /\ download_queue = "StreamSegmentList"
        /\ segments = EmptySegments
        /\ pc = "start"

\* C15 witness: setup has finished with an identity after a buffering phase
\* whose directory held a file.
C15_Witness ==
    /\ lastOp.op = "setup_finish"
    /\ lastOp.buffered
    /\ lastOp.v_id # 0
    /\ lastOp.buffer_dir.files # NoFiles
    /\ pc = "start"

\* ---------------------------------------------------------------- C16
\* C16 as stated: after every pass that took less than 4 s, start() sleeps
\* for the remainder of the 4 s before the next pass.  Where the steps of a
\* pass take no measurable time (SpecPass) every pass is such a pass, so every
\* sleep lasts the full 4 s and two passes never start less than 4 s apart.
C16_Original ==
    lastOp.op = "sleep" => lastOp.slept = LoopCadence

\* ---------------------------------------------------------------- C17
\* C17 as stated: after any sequence of add_part calls and pops, current_id
\* is the highest segment id the registry has ever created.  A segment
\* receives a part in the call that creates it, so the ids ever created are
\* the ids ever assigned to a part.
C17_Original ==
    assigned # <<>> =>
        /\ \E i \in 1..Len(assigned) : assigned[i] = current_id
        /\ \A i \in 1..Len(assigned) : assigned[i] <= current_id

\* ---------------------------------------------------------------- C18
\* C18: a part that is not labelled 'live' is never added to a segment of the
\* registry and never downloaded, yet it is in the processed-parts set; the
\* live parts of the same pass are passed to add_part in their manifest order,
\* all of them unless the pass is cut short by the two-anomalous-parts
\* exception of C6, and are then in the registry.
IsLivePart(part) == part.title = "live"

C19_Original ==
    (pc = "raised" /\ ~(lastOp.op = "final_segment" /\ lastOp.from = "check")) =>
        /\ err.type = "StreamDownloadError"
        /\ err.cause # "TwitchAPIErrorNotFound"

\* ---------------------------------------------------------------- C20
\* C20 as stated: add_part loses no part.  Every part the registry holds
\* before the call is still held after it, and the part passed is held by
\* exactly one segment; so without a pop every part fed is in exactly one
\* segment, and the overflow branch never replaces a segment that holds parts.
Holders(segs, u) ==
    {k \in DOMAIN segs : \E i \in 1..Len(segs[k].parts) : segs[k].parts[i].url = u}

C20_Original ==
    [][lastOp'.op = "add_part" /\ fed' # fed =>
          /\ RegistryUrls \subseteq RegistryUrls'
          /\ Cardinality(Holders(segments', lastOp'.part.url)) = 1]_vars

\* ================================================= joined-session specification
\* The whole session, wall-clock time included, of a Stream that is pointed at
\* a broadcast already under way: the first manifest it sees may start at any
\* part, so the first window of the session can be covered in part only.
\* After that the broadcast never skips a part.
JoinWindows ==
    {w \in (1..MaxUrl) \X (1..MaxUrl) :
        /\ w[1] <= w[2]
        /\ w[2] - w[1] + 1 <= ManifestLen
        /\ processed_parts # {} => w[1] <= LastAdvertised + 1}

JoinManifestOutcomes ==
    {[kind |-> "manifest", parts |-> <<>>]} \cup
    {[kind |-> "manifest",
      parts |-> [i \in 1..(w[2] - w[1] + 1) |->
                    BroadcastPart(w[1] + i - 1, <<NominalDuration, "live">>)]] :
        w \in JoinWindows}

FetchJoinedBroadcast == FetchStep({0}, JoinManifestOutcomes)

JoinStep ==
    \/ Start
    \/ FetchJoinedBroadcast
    \/ BuildDownloadQueue
    \/ DownloadQueuedSegments
    \/ PassDone
    \/ StreamEnded
    \/ SleepAndLoop

JoinNext == JoinStep \/ Tick

SpecJoin == StreamInit /\ [][JoinNext]_vars

\* ---------------------------------------------------------------- C21
\* C21 as stated: when start() has returned normally, every live part that
\* was added to the registry has been handed to _download_segment.  Completed
\* segments are popped when they are handed over and the segment at
\* current_id is handed over by the final flush, so no segment with another
\* id is left in the registry.
C21_Original ==
    pc = "returned" => DOMAIN segments \subseteq {current_id}

\* ---------------------------------------------------------------- C22
\* C22 as stated: whatever the age of the broadcast and whether or not an
\* archive identity is known at the start and at the lookup, _do_setup has
\* set output_dir to a directory when it scans for the files of an earlier
\* session, so the scan never fails on an unset output_dir.
C22_Original ==
    lastOp.op = "setup_finish" =>
        /\ output_path # "None"
        /\ err.type # "TypeError"

====
